---- MODULE Spec2Model ----
(***************************************************************************)
(* Verification model of parts of the learning-management application:     *)
(*   - the learningPatterns tRPC router (src/unnamed/part_004), one        *)
(*     request at a time and under concurrent requests,                    *)
(*   - the UniversalActivitySubmit React component,                        *)
(*   - the learning-pattern analysis service the router calls              *)
(*     (LearningPatternRecognitionService, whose source is not in the      *)
(*     tree and is modelled from its written contract),                    *)
(*   - the StudentLearningProfile card of the gradebook,                   *)
(*   - the TeacherLayout server component,                                 *)
(*   - the ClassActivitiesPage (src/unnamed/part_000).                     *)
(* Each part has its own specification over its own variables.             *)
(***************************************************************************)
EXTENDS Integers, Sequences, FiniteSets, TLC

VARIABLES
    \* ---- learningPatterns router: one request at a time ----
    req,        \* the request being served: [op, caller, input], or NoReq
    rpc,        \* position of its handler: "idle", "findMany", "awaitAll", "done"
    tasks,      \* the promises handed to Promise.all / returned by the service
    res,        \* the response, or NoRes
    confirmed,  \* subjects the authorization layer confirmed for this request
    analysed,   \* subjects whose records this request has read
    serviceCalls, \* service methods this request has invoked
    \* ---- UniversalActivitySubmit: one mounted instance ----
    props,      \* showTryAgain, autoReset
    st,         \* React state as last set: isSubmitting, hasSubmitted, submissionResult
    rn,         \* the state the last committed render (and its closures) saw
    submissionInProgressRef,
    mountedRef,
    timeouts,   \* auto-reset timeouts pending in the browser
    resetTimeoutRef, \* TRUE while the ref names a timeout that is still pending
    awaitingGrade,   \* handleSubmit calls suspended at the autoGrade await
    awaitingExtras,  \* handleSubmit calls suspended at the achievements/analytics await
    log,        \* callbacks and mutations of the current attempt, last toast
    outcome,    \* how the last attempt ended
    lastClick,  \* what the last click on the submit button did
    succeeded,  \* a submission has succeeded and handleReset has not run since
    \* ---- the analysis service: one analyzeStudentLearningPatterns call ----
    records,    \* the student's records in the window, in the order fetched
    attention,  \* the attention span the engagement data gives
    profile,    \* the profile returned, or NoProfile
    apc,        \* "ready", "analysed"
    \* ---- getClassLearningPatterns: concurrent invocations of the resolver ----
    store,      \* the profile the service computes for each student
    calls,      \* the locals of each invocation: pc, input, promises, result
    \* ---- StudentLearningProfile card ----
    cardProfile, \* the profile prop: the four lists the card cuts
    card,       \* what the card rendered for each list, or NoCard
    \* ---- TeacherLayout: one request at a time, caches across requests ----
    lpc,        \* position: "idle", "getSession", "getUser", "getProfile", "done"
    session,    \* what getSessionCache returns for the request
    dbUser,     \* the value getCachedQuery gave (or the user row found so far)
    userCache,  \* entries under teacher-profile:<user id>
    profileCache, \* entries under teacher-profile-data:<user id>
    layoutOut,  \* how the request ended: children rendered, or a redirect
    \* ---- ClassActivitiesPage ----
    auth,       \* useSession(): status and userType
    grades,     \* the activityGrades rows each activity has in the database
    activitiesData, \* the list the query holds: loaded or not, and its items
    activitiesError, \* the query is in its error state
    route,      \* where the router is: the list, /login, or an activity's page
    pageToast,  \* the last toast shown
    lastEdit    \* the last onEdit call: what the page held and what was true

routerVars == <<req, rpc, tasks, res, confirmed, analysed, serviceCalls>>

submitVars ==
    <<props, st, rn, submissionInProgressRef, mountedRef, timeouts, resetTimeoutRef,
      awaitingGrade, awaitingExtras, log, outcome, lastClick, succeeded>>

serviceVars == <<records, attention, profile, apc>>

concurrentVars == <<store, calls>>

cardVars == <<cardProfile, card>>

layoutVars == <<lpc, session, dbUser, userCache, profileCache, layoutOut>>

pageVars == <<auth, grades, activitiesData, activitiesError, route, pageToast, lastEdit>>

vars ==
    <<routerVars, submitVars, serviceVars, concurrentVars, cardVars, layoutVars, pageVars>>

\* The variables each part leaves alone.
notRouterVars ==
    <<submitVars, serviceVars, concurrentVars, cardVars, layoutVars, pageVars>>

notSubmitVars ==
    <<routerVars, serviceVars, concurrentVars, cardVars, layoutVars, pageVars>>

notServiceVars ==
    <<routerVars, submitVars, concurrentVars, cardVars, layoutVars, pageVars>>

notConcurrentVars ==
    <<routerVars, submitVars, serviceVars, cardVars, layoutVars, pageVars>>

notLayoutVars ==
    <<routerVars, submitVars, serviceVars, concurrentVars, cardVars, pageVars>>

notPageVars ==
    <<routerVars, submitVars, serviceVars, concurrentVars, cardVars, layoutVars>>

notCardVars ==
    <<routerVars, submitVars, serviceVars, concurrentVars, layoutVars, pageVars>>

(***************************************************************************)
(* Bounds of the model.                                                    *)
(***************************************************************************)
MaxStudents == 2

(***************************************************************************)
(* The world the router runs in: callers with or without a session, and    *)
(* the rows prisma returns.                                                *)
(***************************************************************************)
Teachers == {"t1", "t2"}

Anonymous == "anon"

Callers == Teachers \cup {Anonymous}

StudentIds == 1 .. MaxStudents

ClassIds == {"c1", "c2", "c3"}

\* prisma.class rows: the teacher of each class.
ClassTeacher == [c \in ClassIds |-> IF c = "c1" THEN "t1" ELSE "t2"]

\* prisma.studentEnrollment rows of a class, in the order findMany returns them.
Enrollments(c) ==
    CASE c = "c1" -> [i \in 1 .. MaxStudents |-> i]
      [] c = "c2" -> <<1>>
      [] OTHER    -> << >>

\* prisma.class.findMany({ where: { teacherId } }): the ids of a teacher's classes.
TeacherClasses(t) ==
    CASE t = "t1" -> <<"c1">>
      [] t = "t2" -> <<"c2", "c3">>
      [] OTHER    -> << >>

Range(s) == {s[i] : i \in DOMAIN s}

NoReq == [op |-> "none"]

NoRes == [status |-> "none"]

Null == "null"

(***************************************************************************)
(* JavaScript numbers, as far as the router computes with them: exact      *)
(* fractions num/den in lowest terms, and NaN.  NaN is absorbing, and 0/0  *)
(* (the only division by zero the router can make) is NaN.                 *)
(***************************************************************************)
NaN == [nan |-> TRUE, num |-> 0, den |-> 1]

RECURSIVE Gcd(_, _)
Gcd(a, b) == IF b = 0 THEN a ELSE Gcd(b, a % b)

Frac(n, d) ==
    LET g == Gcd(n, d) IN [nan |-> FALSE, num |-> n \div g, den |-> d \div g]

Num(n) == [nan |-> FALSE, num |-> n, den |-> 1]

JsAdd(a, b) ==
    IF a.nan \/ b.nan THEN NaN ELSE Frac(a.num * b.den + b.num * a.den, a.den * b.den)

JsMul(a, b) ==
    IF a.nan \/ b.nan THEN NaN ELSE Frac(a.num * b.num, a.den * b.den)

JsDiv(a, b) ==
    IF a.nan \/ b.nan \/ b.num = 0 THEN NaN ELSE Frac(a.num * b.den, a.den * b.num)

(***************************************************************************)
(* Subjects of a request: a student or a class.                            *)
(***************************************************************************)
StudentSubject(s) == [kind |-> "student", studentId |-> s, classId |-> Null]

ClassSubject(c) == [kind |-> "class", studentId |-> 0, classId |-> c]

\* Whether a caller may view a subject: a teacher may view the classes they
\* teach and the students enrolled in them.
Permitted(caller, subject) ==
    /\ caller \in Teachers
    /\ IF subject.kind = "class"
       THEN ClassTeacher[subject.classId] = caller
       ELSE \E c \in ClassIds :
               /\ ClassTeacher[c] = caller
               /\ subject.studentId \in Range(Enrollments(c))

\* The student and class ids an input names.
GivenSubjects(op, input) ==
    CASE op \in {"analyzeStudentPatterns", "predictPerformance", "generateAdaptiveContent"} ->
             {StudentSubject(input.studentId)}
      [] op = "detectEarlyWarnings" ->
             {StudentSubject(input.studentId)}
                 \cup (IF input.classId = Null THEN {} ELSE {ClassSubject(input.classId)})
      [] op = "getClassLearningPatterns" -> {ClassSubject(input.classId)}
      [] op = "getTeacherInsights" ->
             {ClassSubject(c) : c \in Range(input.classIds.ids)}
      [] OTHER -> {}

\* protectedProcedure: the gate every procedure of the router is built on.
\* The caller must have a session and must be permitted to view every student
\* and class the input names.
ProtectedProcedure(caller, op, input) ==
    /\ caller # Anonymous
    /\ \A s \in GivenSubjects(op, input) : Permitted(caller, s)

(***************************************************************************)
(* Input schemas (zod).                                                    *)
(***************************************************************************)
BloomsLevels == {"REMEMBER", "UNDERSTAND", "APPLY", "ANALYZE", "EVALUATE", "CREATE"}

\* Numbers are held in tenths, so that 0.9, 5.5 and 10.1 are inputs.
Tenths(n) == n * 10

DifficultyMin == 1

DifficultyMax == 10

\* z.number().min(lo).max(hi): a number (not NaN, not a string), lo <= v <= hi.
ZodNumberMinMaxLoose(v, lo, hi) ==
    /\ v.type = "number"
    /\ v.tenths >= Tenths(lo)
    /\ v.tenths <= Tenths(hi + 1)

ZodNumberMinMax(v, lo, hi) ==
    /\ v.type = "number"
    /\ v.tenths >= Tenths(lo)
    /\ v.tenths <= Tenths(hi)

\* z.enum([...]): exactly one of the listed strings.
ZodEnum(v, options) == v \in options

\* The input schema of predictPerformance.
PredictInputParses(input) ==
    /\ ZodEnum(input.bloomsLevel, BloomsLevels)
    /\ ZodNumberMinMax(input.difficulty, DifficultyMin, DifficultyMax)

\* The input schema of a procedure: only predictPerformance constrains values
\* beyond their type.
InputParses(op, input) ==
    IF op = "predictPerformance" THEN PredictInputParses(input) ELSE TRUE

(***************************************************************************)
(* Inputs the model sends.                                                 *)
(***************************************************************************)
DifficultyInputs ==
    {[type |-> "number", tenths |-> t] : t \in {0, 9, 10, 55, 100, 101, 110}}
        \cup {[type |-> "nan", tenths |-> 0], [type |-> "string", tenths |-> 50]}

BloomsInputs == {"REMEMBER", "CREATE", "remember", "SYNTHESIZE"}

\* An optional classIds array: given (with its ids) or undefined.
ClassIdLists ==
    {[given |-> TRUE, ids |-> l] : l \in {<<"c1">>, <<"c2", "c3">>, << >>}}
        \cup {[given |-> FALSE, ids |-> << >>]}

\* input.teacherId is any string: a teacher of the model, or one without classes.
TeacherIdInputs == Teachers \cup {"t3"}

Inputs(op) ==
    CASE op \in {"analyzeStudentPatterns", "generateAdaptiveContent"} ->
             {[studentId |-> s] : s \in StudentIds}
      [] op = "predictPerformance" ->
             {[studentId |-> 1, bloomsLevel |-> b, difficulty |-> d] :
                 b \in BloomsInputs, d \in DifficultyInputs}
      [] op = "detectEarlyWarnings" ->
             {[studentId |-> s, classId |-> c] : s \in StudentIds, c \in {Null, "c1"}}
      [] op = "getClassLearningPatterns" -> {[classId |-> c] : c \in ClassIds}
      [] op = "getTeacherInsights" ->
             {[teacherId |-> t, classIds |-> l] :
                 t \in TeacherIdInputs, l \in ClassIdLists}
      [] OTHER -> {}

StudentOps ==
    {"analyzeStudentPatterns", "predictPerformance", "detectEarlyWarnings",
     "generateAdaptiveContent"}

(***************************************************************************)
(* What the service answers.  The router treats a profile as opaque apart  *)
(* from performancePatterns.consistencyScore and riskFactors.length.       *)
(***************************************************************************)
ProfileOutcomes ==
    {[consistencyScore |-> Num(100), riskFactors |-> 0],
     [consistencyScore |-> Num(50), riskFactors |-> 1],
     [consistencyScore |-> Num(0), riskFactors |-> 2]}

\* What service.getClassLearningPatterns answers for one class.
ClassDataOutcomes ==
    {[studentCount |-> 2, consistencyScore |-> Num(50), riskFactorCount |-> Num(1)],
     [studentCount |-> 0, consistencyScore |-> NaN, riskFactorCount |-> NaN]}

RECURSIVE Reduce(_, _, _)
\* array.reduce((sum, x) => sum + x..., init), from the left, over the summands
\* xs[i ..].
Reduce(xs, i, acc) ==
    IF i > Len(xs) THEN acc ELSE Reduce(xs, i + 1, JsAdd(acc, xs[i]))

\* array.map(f), as the sequence of the values f gives.
ConsistencyScores(ts) == [i \in DOMAIN ts |-> ts[i].result.consistencyScore]

RiskFactorCounts(ts) == [i \in DOMAIN ts |-> Num(ts[i].result.riskFactors)]

\* The result slot of a promise that has not fulfilled: it holds no profile.
NoResult ==
    [consistencyScore |-> NaN, riskFactors |-> 0, studentCount |-> 0, riskFactorCount |-> NaN]

NewTask(subject) == [subject |-> subject, status |-> "pending", result |-> NoResult]

AllFulfilled(ts) == \A i \in DOMAIN ts : ts[i].status = "fulfilled"

SomeRejected(ts) == \E i \in DOMAIN ts : ts[i].status = "rejected"

\* Promise.all(promises) fulfils once every promise has fulfilled.
PromiseAllFulfilsEarly(ts) ==
    ts = << >> \/ \E i \in DOMAIN ts : ts[i].status = "fulfilled"

PromiseAllFulfils(ts) == AllFulfilled(ts)

\* Promise.all(promises) rejects as soon as one promise has rejected.
PromiseAllRejects(ts) == SomeRejected(ts)

(***************************************************************************)
(* The router's actions.                                                   *)
(***************************************************************************)
RouterInit ==
    /\ req = NoReq
    /\ rpc = "idle"
    /\ tasks = << >>
    /\ res = NoRes
    /\ confirmed = {}
    /\ analysed = {}
    /\ serviceCalls = {}

\* A request the authorization layer turns away: the resolver never runs.
RequestUnauthorized ==
    /\ rpc = "idle"
    /\ \E op \in StudentOps \cup {"getClassLearningPatterns", "getTeacherInsights"} :
       \E caller \in Callers : \E input \in Inputs(op) :
          /\ ~ProtectedProcedure(caller, op, input)
          /\ req' = [op |-> op, caller |-> caller, input |-> input]
          /\ res' = [status |-> "error",
                     code |-> IF caller = Anonymous THEN "UNAUTHORIZED" ELSE "FORBIDDEN"]
    /\ rpc' = "done"
    /\ UNCHANGED <<tasks, confirmed, analysed, serviceCalls>>

\* A request whose input the schema rejects: the resolver never runs.
RequestBadInput ==
    /\ rpc = "idle"
    /\ \E op \in StudentOps : \E caller \in Callers : \E input \in Inputs(op) :
          /\ ProtectedProcedure(caller, op, input)
          /\ ~InputParses(op, input)
          /\ req' = [op |-> op, caller |-> caller, input |-> input]
          /\ confirmed' = GivenSubjects(op, input)
    /\ res' = [status |-> "error", code |-> "BAD_REQUEST"]
    /\ rpc' = "done"
    /\ UNCHANGED <<tasks, analysed, serviceCalls>>

\* analyzeStudentPatterns, predictPerformance, detectEarlyWarnings and
\* generateAdaptiveContent: the resolver constructs the service and returns the
\* promise of one service call on input.studentId.
StudentRequest ==
    /\ rpc = "idle"
    /\ \E op \in StudentOps : \E caller \in Callers : \E input \in Inputs(op) :
          /\ ProtectedProcedure(caller, op, input)
          /\ InputParses(op, input)
          /\ req' = [op |-> op, caller |-> caller, input |-> input]
          /\ confirmed' = GivenSubjects(op, input)
          /\ tasks' = <<NewTask(StudentSubject(input.studentId))>>
          /\ analysed' = {StudentSubject(input.studentId)}
          /\ serviceCalls' = {op}
    /\ rpc' = "awaitAll"
    /\ res' = NoRes

\* getClassLearningPatterns up to its first await: the enrollment query.
ClassRequest ==
    /\ rpc = "idle"
    /\ \E caller \in Callers : \E input \in Inputs("getClassLearningPatterns") :
          /\ ProtectedProcedure(caller, "getClassLearningPatterns", input)
          /\ req' = [op |-> "getClassLearningPatterns", caller |-> caller, input |-> input]
          /\ confirmed' = GivenSubjects("getClassLearningPatterns", input)
          /\ analysed' = {ClassSubject(input.classId)}
    /\ rpc' = "findMany"
    /\ res' = NoRes
    /\ UNCHANGED <<tasks, serviceCalls>>

\* The enrollment query answers: classStudents.map(async ...) starts one
\* analysis per enrollment, all before any of them settles, and the resolver
\* awaits Promise.all of them.
ClassStudentsLoaded ==
    /\ rpc = "findMany"
    /\ req.op = "getClassLearningPatterns"
    /\ LET classStudents == Enrollments(req.input.classId)
       IN  /\ tasks' = [i \in DOMAIN classStudents |-> NewTask(StudentSubject(classStudents[i]))]
           /\ analysed' = analysed \cup {StudentSubject(classStudents[i]) : i \in DOMAIN classStudents}
           /\ serviceCalls' =
                 IF classStudents = << >> THEN serviceCalls
                 ELSE serviceCalls \cup {"analyzeStudentLearningPatterns"}
    /\ rpc' = "awaitAll"
    /\ UNCHANGED <<req, res, confirmed>>

\* getTeacherInsights with classIds given: one service.getClassLearningPatterns
\* call per class id, awaited with Promise.all.
InsightsRequestWithClasses ==
    /\ rpc = "idle"
    /\ \E caller \in Callers : \E input \in Inputs("getTeacherInsights") :
          /\ ProtectedProcedure(caller, "getTeacherInsights", input)
          /\ input.classIds.given
          /\ req' = [op |-> "getTeacherInsights", caller |-> caller, input |-> input]
          /\ confirmed' = GivenSubjects("getTeacherInsights", input)
          /\ LET classIds == input.classIds.ids
             IN  /\ tasks' = [i \in DOMAIN classIds |-> NewTask(ClassSubject(classIds[i]))]
                 /\ analysed' = {ClassSubject(c) : c \in Range(classIds)}
                 /\ serviceCalls' =
                       IF classIds = << >> THEN {} ELSE {"getClassLearningPatterns"}
    /\ rpc' = "awaitAll"
    /\ res' = NoRes

\* getTeacherInsights without classIds, up to its first await: the query for
\* the classes of input.teacherId.
InsightsRequestNoClasses ==
    /\ rpc = "idle"
    /\ \E caller \in Callers : \E input \in Inputs("getTeacherInsights") :
          /\ ProtectedProcedure(caller, "getTeacherInsights", input)
          /\ ~input.classIds.given
          /\ req' = [op |-> "getTeacherInsights", caller |-> caller, input |-> input]
          /\ confirmed' = GivenSubjects("getTeacherInsights", input)
    /\ rpc' = "findMany"
    /\ res' = NoRes
    /\ UNCHANGED <<tasks, analysed, serviceCalls>>

\* The class query answers: classIds = teacherClasses.map(c => c.id), then one
\* service.getClassLearningPatterns call per class id.
TeacherClassesLoaded ==
    /\ rpc = "findMany"
    /\ req.op = "getTeacherInsights"
    /\ LET classIds == TeacherClasses(req.input.teacherId)
       IN  /\ tasks' = [i \in DOMAIN classIds |-> NewTask(ClassSubject(classIds[i]))]
           /\ analysed' = analysed \cup {ClassSubject(c) : c \in Range(classIds)}
           /\ serviceCalls' =
                 IF classIds = << >> THEN serviceCalls
                 ELSE serviceCalls \cup {"getClassLearningPatterns"}
    /\ rpc' = "awaitAll"
    /\ UNCHANGED <<req, res, confirmed>>

\* What a service call on a subject can answer.
Outcomes(op, subject) ==
    CASE op = "getTeacherInsights" -> ClassDataOutcomes
      [] OTHER -> ProfileOutcomes

\* One pending service call fulfils.  A call still pending when the request
\* has already been answered settles all the same.
TaskFulfils ==
    /\ rpc \in {"awaitAll", "done"}
    /\ \E i \in DOMAIN tasks : \E r \in Outcomes(req.op, tasks[i].subject) :
          /\ tasks[i].status = "pending"
          /\ tasks' = [tasks EXCEPT ![i] = [@ EXCEPT !.status = "fulfilled", !.result = r]]
    /\ UNCHANGED <<req, rpc, res, confirmed, analysed, serviceCalls>>

\* One pending service call rejects (the record store is unavailable).
TaskRejects ==
    /\ rpc \in {"awaitAll", "done"}
    /\ \E i \in DOMAIN tasks :
          /\ tasks[i].status = "pending"
          /\ tasks' = [tasks EXCEPT ![i] = [@ EXCEPT !.status = "rejected"]]
    /\ UNCHANGED <<req, rpc, res, confirmed, analysed, serviceCalls>>

\* The object getClassLearningPatterns returns.
ClassPatternsResult(classId, classStudents, studentPatterns) ==
    [classId |-> classId,
     studentCount |-> Len(classStudents),
     studentPatterns |->
         [i \in DOMAIN studentPatterns |->
             [studentId |-> studentPatterns[i].subject.studentId,
              patterns |-> studentPatterns[i].result]],
     classAverages |->
         [consistencyScore |->
              JsDiv(Reduce(ConsistencyScores(studentPatterns), 1, Num(0)),
                    Num(Len(studentPatterns))),
          riskFactorCount |->
              JsDiv(Reduce(RiskFactorCounts(studentPatterns), 1, Num(0)),
                    Num(Len(studentPatterns)))]]

StudentCounts(cs) == [i \in DOMAIN cs |-> Num(cs[i].result.studentCount)]

ClassRiskTotals(cs) ==
    [i \in DOMAIN cs |->
        JsMul(cs[i].result.riskFactorCount, Num(cs[i].result.studentCount))]

\* The object getTeacherInsights returns.
TeacherInsightsResult(input, classInsights) ==
    [teacherId |-> input.teacherId,
     classInsights |->
         [i \in DOMAIN classInsights |->
             [classId |-> classInsights[i].subject.classId, data |-> classInsights[i].result]],
     summary |->
         [totalStudents |-> Reduce(StudentCounts(classInsights), 1, Num(0)),
          averageConsistency |->
              JsDiv(Reduce(ConsistencyScores(classInsights), 1, Num(0)),
                    Num(Len(classInsights))),
          totalRiskFactors |-> Reduce(ClassRiskTotals(classInsights), 1, Num(0))]]

\* The awaited Promise.all (or the single returned promise) fulfils and the
\* resolver returns its result.
AwaitFulfils ==
    /\ rpc = "awaitAll"
    /\ PromiseAllFulfils(tasks)
    /\ res' = [status |-> "ok",
               body |->
                   CASE req.op = "getClassLearningPatterns" ->
                            ClassPatternsResult(req.input.classId,
                                                Enrollments(req.input.classId), tasks)
                     [] req.op = "getTeacherInsights" ->
                            TeacherInsightsResult(req.input, tasks)
                     [] OTHER -> tasks[1].result]
    /\ rpc' = "done"
    /\ UNCHANGED <<req, tasks, confirmed, analysed, serviceCalls>>

\* The awaited promise rejects: nothing catches it, the request fails.
AwaitRejects ==
    /\ rpc = "awaitAll"
    /\ PromiseAllRejects(tasks)
    /\ res' = [status |-> "error", code |-> "INTERNAL_SERVER_ERROR"]
    /\ rpc' = "done"
    /\ UNCHANGED <<req, tasks, confirmed, analysed, serviceCalls>>

\* The response has been delivered; the next request starts from nothing.
RequestEnds ==
    /\ rpc = "done"
    /\ req' = NoReq
    /\ rpc' = "idle"
    /\ tasks' = << >>
    /\ res' = NoRes
    /\ confirmed' = {}
    /\ analysed' = {}
    /\ serviceCalls' = {}

RouterNext ==
    \/ RequestUnauthorized
    \/ RequestBadInput
    \/ StudentRequest
    \/ ClassRequest
    \/ ClassStudentsLoaded
    \/ InsightsRequestWithClasses
    \/ InsightsRequestNoClasses
    \/ TeacherClassesLoaded
    \/ TaskFulfils
    \/ TaskRejects
    \/ AwaitFulfils
    \/ AwaitRejects
    \/ RequestEnds

(***************************************************************************)
(* Claims about the router.                                                *)
(***************************************************************************)
IsClassRequest == req.op = "getClassLearningPatterns"

FulfilledIndexes == {i \in DOMAIN tasks : tasks[i].status = "fulfilled"}

RejectedIndexes == {i \in DOMAIN tasks : tasks[i].status = "rejected"}

\* One analysis of a class request failed and every other one succeeded.
OneFailedOthersSucceeded ==
    /\ IsClassRequest
    /\ rpc = "done"
    /\ Cardinality(RejectedIndexes) = 1
    /\ Cardinality(FulfilledIndexes) = Len(tasks) - 1
    /\ Len(tasks) >= 2

FulfilledTasks == SelectSeq(tasks, LAMBDA t : t.status = "fulfilled")

\* The mean of a sequence of numbers.
MeanOf(xs) == JsDiv(Reduce(xs, 1, Num(0)), Num(Len(xs)))

\* C1: when the analysis of one enrolled student fails and the others succeed,
\* getClassLearningPatterns still returns a result: studentCount counts every
\* enrolled student, the failing student's entry carries an error marker
\* instead of a profile, every other entry carries its profile, and
\* classAverages are the means over the successful profiles only.
C1_PartialFailureStillAnswers ==
    OneFailedOthersSucceeded =>
        /\ res.status = "ok"
        /\ res.body.studentCount = Len(Enrollments(req.input.classId))
        /\ Len(res.body.studentPatterns) = Len(tasks)
        /\ \A i \in RejectedIndexes :
               res.body.studentPatterns[i].patterns \notin ProfileOutcomes
        /\ \A i \in FulfilledIndexes :
               res.body.studentPatterns[i].patterns = tasks[i].result
        /\ res.body.classAverages.consistencyScore
               = MeanOf(ConsistencyScores(FulfilledTasks))
        /\ res.body.classAverages.riskFactorCount
               = MeanOf(RiskFactorCounts(FulfilledTasks))

\* A subject counts as confirmed when the authorization layer confirmed it, or
\* confirmed a class it is enrolled in.
ConfirmedFor(s) ==
    \/ s \in confirmed
    \/ /\ s.kind = "student"
       /\ \E c \in confirmed :
              c.kind = "class" /\ s.studentId \in Range(Enrollments(c.classId))

\* C2: no learning-pattern operation reads the records of a student or class
\* unless the caller was first confirmed as permitted to view that student or
\* class.
C2_PermissionPrecedesAnalysis == \A s \in analysed : ConfirmedFor(s)

\* C3: getClassLearningPatterns computes classAverages and returns only after
\* the analysis of every enrolled student has completed: a result never
\* coexists with a per-student analysis of the same request still pending.
C3_BarrierBeforeAverages ==
    (IsClassRequest /\ res.status = "ok") =>
        /\ Len(tasks) = Len(Enrollments(req.input.classId))
        /\ \A i \in DOMAIN tasks : tasks[i].status = "fulfilled"

\* A class request over at least two students has returned its averages.
C3_Witness ==
    /\ IsClassRequest
    /\ res.status = "ok"
    /\ Len(tasks) >= 2
    /\ ~res.body.classAverages.consistencyScore.nan

\* A JavaScript number that is an actual number within lo .. hi.
NumberWithin(x, lo, hi) ==
    /\ ~x.nan
    /\ x.num >= lo * x.den
    /\ x.num <= hi * x.den

\* C19: the averages are well defined for every class and teacher:
\* classAverages.consistencyScore is the mean of the per-student scores and
\* lies in [0,100], classAverages.riskFactorCount is a non-negative number,
\* also for a class without enrolled students, and
\* getTeacherInsights.summary.averageConsistency is a number in [0,100] for a
\* teacher without classes.
C19_AveragesWellDefined ==
    /\ (IsClassRequest /\ res.status = "ok") =>
          /\ NumberWithin(res.body.classAverages.consistencyScore, 0, 100)
          /\ ~res.body.classAverages.riskFactorCount.nan
          /\ res.body.classAverages.riskFactorCount.num >= 0
    /\ (req.op = "getTeacherInsights" /\ res.status = "ok" /\ tasks = << >>) =>
          NumberWithin(res.body.summary.averageConsistency, 0, 100)

\* The inputs C7 allows: a difficulty that is a number from 1 to 10 inclusive
\* and a bloomsLevel among the six level names.
C7_Acceptable(input) ==
    /\ input.difficulty.type = "number"
    /\ input.difficulty.tenths >= 10
    /\ input.difficulty.tenths <= 100
    /\ input.bloomsLevel \in
          {"REMEMBER", "UNDERSTAND", "APPLY", "ANALYZE", "EVALUATE", "CREATE"}

\* C7: predictPerformance accepts difficulty only within 1..10 inclusive and
\* bloomsLevel only among the six level names; for every other input the
\* request is rejected and the prediction service is never invoked.
C7_PredictRejectsBadInput ==
    (req.op = "predictPerformance" /\ ~C7_Acceptable(req.input)) =>
        /\ serviceCalls = {}
        /\ tasks = << >>
        /\ res.status = "error"

\* A signed-in, permitted caller sent a difficulty just above 10 and was
\* answered BAD_REQUEST.
C7_Witness ==
    /\ req.op = "predictPerformance"
    /\ req.caller # Anonymous
    /\ req.input.bloomsLevel = "CREATE"
    /\ req.input.difficulty = [type |-> "number", tenths |-> 101]
    /\ res.status = "error"
    /\ res.code = "BAD_REQUEST"

(***************************************************************************)
(* UniversalActivitySubmit.                                                *)
(*                                                                         *)
(* A click runs the handler of the last committed render, so the handler   *)
(* reads isSubmitting and hasSubmitted as that render saw them (rn) and    *)
(* the refs as they are now.  State set inside a click handler is          *)
(* rendered before any other event is handled; state set after an await is *)
(* rendered by a later task (Render), so clicks can fall in between.  The  *)
(* model invokes the onClick handler of whichever button is rendered and   *)
(* does not rely on the disabled attribute to suppress the event.          *)
(***************************************************************************)
MaxInFlight == 2

NoSubmissionResult == [isNull |-> TRUE, success |-> FALSE, achievements |-> 0]

InitialState ==
    [isSubmitting |-> FALSE, hasSubmitted |-> FALSE,
     submissionResult |-> NoSubmissionResult, lastSubmissionTime |-> FALSE]

NoError == [isError |-> FALSE, message |-> "none"]

NoExtras == [achievement |-> "none", analytics |-> "none"]

NoLog == [start |-> 0, mutate |-> 0, complete |-> 0, error |-> 0,
          errorArg |-> NoError, toast |-> "none", reset |-> 0,
          completeArg |-> NoSubmissionResult, extras |-> NoExtras]

NoClick == [did |-> "none", after |-> "none", answers |-> "none", validateAnswers |-> "none"]

PropsChoices == [showTryAgain : BOOLEAN, autoReset : BOOLEAN]

SubmitInitWith(p) ==
    /\ props = p
    /\ st = InitialState
    /\ rn = InitialState
    /\ submissionInProgressRef = FALSE
    /\ mountedRef = TRUE
    /\ timeouts = 0
    /\ resetTimeoutRef = FALSE
    /\ awaitingGrade = 0
    /\ awaitingExtras = 0
    /\ log = NoLog
    /\ outcome = "none"
    /\ lastClick = NoClick
    /\ succeeded = FALSE

SubmitInit == \E p \in PropsChoices : SubmitInitWith(p)

\* config.answers and the optional validateAnswers prop, as a click finds them.
AnswersChoices == {"missing", "emptyObject", "filled"}

ValidateAnswersChoices == {"notProvided", "true", "false", "message"}

\* validateSubmission(): true, or the message to show.
ValidateSubmissionAcceptsEmptyObject(answers, validateAnswers) ==
    IF answers = "missing"
    THEN "Please provide answers before submitting."
    ELSE IF validateAnswers \in {"notProvided", "true"} THEN "true"
    ELSE IF validateAnswers = "message" THEN "message"
    ELSE "Please complete all required fields."

ValidateSubmission(answers, validateAnswers) ==
    IF answers \in {"missing", "emptyObject"}
    THEN "Please provide answers before submitting."
    ELSE IF validateAnswers \in {"notProvided", "true"} THEN "true"
    ELSE IF validateAnswers = "message" THEN "message"
    ELSE "Please complete all required fields."

\* The first line of handleSubmit: the conditions under which it returns at once.
SubmitBlockedNoGuard(rendered, inProgress, mounted) == ~mounted

SubmitBlocked(rendered, inProgress, mounted) ==
    rendered.isSubmitting \/ rendered.hasSubmitted \/ inProgress \/ ~mounted

\* Which button the last render put on the page.
TryAgainRendered ==
    rn.hasSubmitted /\ props.showTryAgain /\ rn.submissionResult.success

\* isButtonDisabled, with the disabled prop left at its default.
IsButtonDisabled == rn.isSubmitting \/ (rn.hasSubmitted /\ ~props.showTryAgain)

InProgress == awaitingGrade + awaitingExtras > 0

\* clearTimeout(resetTimeoutRef.current): cancels the timeout the ref names, if
\* it is still pending.
TimeoutsAfterClear == IF resetTimeoutRef THEN timeouts - 1 ELSE timeouts

\* A click on the submit button that handleSubmit ignores.
ClickSubmitBlocked ==
    /\ mountedRef
    /\ ~TryAgainRendered
    /\ SubmitBlocked(rn, submissionInProgressRef, mountedRef)
    /\ lastClick' = [NoClick EXCEPT !.did = "blocked", !.after = outcome]
    /\ UNCHANGED <<props, st, rn, submissionInProgressRef, mountedRef, timeouts,
                   resetTimeoutRef, awaitingGrade, awaitingExtras, log, outcome, succeeded>>

\* A click that passes the guard and fails validation: a toast, nothing else.
ClickSubmitInvalid ==
    /\ mountedRef
    /\ ~TryAgainRendered
    /\ ~SubmitBlocked(rn, submissionInProgressRef, mountedRef)
    /\ \E a \in AnswersChoices : \E v \in ValidateAnswersChoices :
          /\ ValidateSubmission(a, v) # "true"
          /\ lastClick' = [did |-> "invalid", after |-> outcome,
                           answers |-> a, validateAnswers |-> v]
    /\ log' = [log EXCEPT !.toast = "validation"]
    /\ UNCHANGED <<props, st, rn, submissionInProgressRef, mountedRef, timeouts,
                   resetTimeoutRef, awaitingGrade, awaitingExtras, outcome, succeeded>>

\* A click that passes the guard and validation: the ref is set,
\* isSubmitting is set, onSubmissionStart is called and the autoGrade mutation
\* is issued; the handler suspends at its await and React renders.
ClickSubmitStarts ==
    /\ mountedRef
    /\ ~TryAgainRendered
    /\ ~SubmitBlocked(rn, submissionInProgressRef, mountedRef)
    /\ awaitingGrade + awaitingExtras < MaxInFlight
    /\ \E a \in AnswersChoices : \E v \in ValidateAnswersChoices :
          /\ ValidateSubmission(a, v) = "true"
          /\ lastClick' = [did |-> "started", after |-> outcome,
                           answers |-> a, validateAnswers |-> v]
    /\ submissionInProgressRef' = TRUE
    /\ st' = [st EXCEPT !.isSubmitting = TRUE]
    /\ rn' = st'
    /\ awaitingGrade' = awaitingGrade + 1
    /\ log' = IF InProgress
              THEN [log EXCEPT !.start = @ + 1, !.mutate = @ + 1]
              ELSE [NoLog EXCEPT !.start = 1, !.mutate = 1]
    /\ outcome' = IF InProgress THEN outcome ELSE "none"
    /\ UNCHANGED <<props, mountedRef, timeouts, resetTimeoutRef, awaitingExtras, succeeded>>

\* The finally block of handleSubmit.
FinallyStateKeepsSubmitting(s, mounted) == s

FinallyStateUnguarded(s, mounted) == [s EXCEPT !.isSubmitting = FALSE]

FinallyState(s, mounted) == IF mounted THEN [s EXCEPT !.isSubmitting = FALSE] ELSE s

\* autoGrade resolves: unless unmounted, the achievement and analytics
\* mutations are issued and the handler suspends at Promise.all of the two.
GradeResolves ==
    /\ awaitingGrade > 0
    /\ awaitingGrade' = awaitingGrade - 1
    /\ IF mountedRef
       THEN /\ awaitingExtras' = awaitingExtras + 1
            /\ UNCHANGED <<st, submissionInProgressRef, outcome>>
       ELSE /\ st' = FinallyState(st, mountedRef)
            /\ submissionInProgressRef' = FALSE
            /\ outcome' = "silent"
            /\ UNCHANGED awaitingExtras
    /\ UNCHANGED <<props, rn, mountedRef, timeouts, resetTimeoutRef, log, lastClick, succeeded>>

\* What a rejected mutation can throw: an Error, or some other value.
ThrownValues ==
    {[isError |-> TRUE, message |-> "grading failed"],
     [isError |-> FALSE, message |-> "none"]}

\* error instanceof Error ? error.message : 'An unexpected error occurred'
ErrorMessage(thrown) ==
    IF thrown.isError THEN thrown.message ELSE "An unexpected error occurred"

\* error instanceof Error ? error : new Error(errorMessage)
ToError(thrown) ==
    IF thrown.isError THEN thrown ELSE [isError |-> TRUE, message |-> ErrorMessage(thrown)]

\* autoGrade rejects: the catch block (toast, onSubmissionError) unless
\* unmounted, then the finally block.
GradeRejects ==
    /\ awaitingGrade > 0
    /\ awaitingGrade' = awaitingGrade - 1
    /\ \E thrown \in ThrownValues :
          IF mountedRef
          THEN /\ log' = [log EXCEPT !.toast = "error", !.error = @ + 1,
                                     !.errorArg = ToError(thrown)]
               /\ outcome' = "rejected"
          ELSE /\ outcome' = "silent"
               /\ UNCHANGED log
    /\ st' = FinallyState(st, mountedRef)
    /\ submissionInProgressRef' = FALSE
    /\ UNCHANGED <<props, rn, mountedRef, timeouts, resetTimeoutRef, awaitingExtras,
                   lastClick, succeeded>>

\* What the achievement mutation can answer: an array of achievements, a
\* single object, or a failure (caught, giving []).
AchievementOutcomes == {"array", "object", "failed"}

AnalyticsOutcomes == {"ok", "failed"}

\* triggerAchievementsMutation.mutateAsync(...).catch(error => { ...; return []; }):
\* the promise fulfils with the answer, or with [] when the mutation failed.
AchievementsPromiseUncaught(answer) ==
    IF answer = "failed" THEN [status |-> "rejected", value |-> "none"]
    ELSE [status |-> "fulfilled", value |-> answer]

AchievementsPromise(answer) ==
    IF answer = "failed" THEN [status |-> "fulfilled", value |-> "emptyArray"]
    ELSE [status |-> "fulfilled", value |-> answer]

\* updateAnalyticsMutation.mutateAsync(...).catch(error => { ... }): the promise
\* fulfils, with undefined when the mutation failed.
AnalyticsPromise(answer) ==
    IF answer = "failed" THEN [status |-> "fulfilled", value |-> "undefined"]
    ELSE [status |-> "fulfilled", value |-> answer]

\* Array.isArray(achievements) ? achievements : [], as the number of entries.
AchievementsOf(value) == IF value = "array" THEN 1 ELSE 0

\* finalResult
FinalResult(achievements) ==
    [isNull |-> FALSE, success |-> TRUE, achievements |-> achievements]

\* The state after the setters of the success path.
SuccessStateNoHasSubmitted(s, achievements) ==
    [s EXCEPT !.submissionResult = FinalResult(achievements),
              !.lastSubmissionTime = TRUE]

SuccessState(s, achievements) ==
    [s EXCEPT !.submissionResult = FinalResult(achievements),
              !.hasSubmitted = TRUE,
              !.lastSubmissionTime = TRUE]

\* Promise.all of the achievement and analytics promises settles.  Both have
\* their own catch, so it fulfils: the success path unless unmounted, then the
\* finally block.  Were it to reject, the catch block would run as for a
\* rejected autoGrade.
ExtrasResolve ==
    /\ awaitingExtras > 0
    /\ awaitingExtras' = awaitingExtras - 1
    /\ \E ach \in AchievementOutcomes : \E ana \in AnalyticsOutcomes :
          LET achievementsPromise == AchievementsPromise(ach)
              analyticsPromise == AnalyticsPromise(ana)
              extras == [achievement |-> ach, analytics |-> ana]
          IN  IF ~mountedRef
              THEN /\ st' = FinallyState(st, mountedRef)
                   /\ outcome' = "silent"
                   /\ UNCHANGED <<log, succeeded, timeouts, resetTimeoutRef>>
              ELSE IF achievementsPromise.status = "fulfilled"
                      /\ analyticsPromise.status = "fulfilled"
              THEN LET achievements == AchievementsOf(achievementsPromise.value)
                   IN  /\ st' = FinallyState(SuccessState(st, achievements), mountedRef)
                       /\ log' = [log EXCEPT !.toast = "success", !.complete = @ + 1,
                                             !.completeArg = FinalResult(achievements),
                                             !.extras = extras]
                       /\ outcome' = "success"
                       /\ succeeded' = TRUE
                       /\ IF props.autoReset /\ props.showTryAgain
                          THEN timeouts' = timeouts + 1 /\ resetTimeoutRef' = TRUE
                          ELSE UNCHANGED <<timeouts, resetTimeoutRef>>
              ELSE /\ st' = FinallyState(st, mountedRef)
                   /\ log' = [log EXCEPT !.toast = "error", !.error = @ + 1,
                                         !.errorArg = ToError([isError |-> TRUE,
                                                               message |-> "mutation failed"]),
                                         !.extras = extras]
                   /\ outcome' = "rejected"
                   /\ UNCHANGED <<succeeded, timeouts, resetTimeoutRef>>
    /\ submissionInProgressRef' = FALSE
    /\ UNCHANGED <<props, rn, mountedRef, awaitingGrade, lastClick>>

\* The state after handleReset's setters.
ResetState(s, mounted) ==
    IF mounted
    THEN [s EXCEPT !.isSubmitting = FALSE, !.hasSubmitted = FALSE,
                   !.submissionResult = NoSubmissionResult,
                   !.lastSubmissionTime = FALSE]
    ELSE s

\* A click on Try Again: handleReset, then React renders.
ClickTryAgain ==
    /\ mountedRef
    /\ TryAgainRendered
    /\ timeouts' = TimeoutsAfterClear
    /\ resetTimeoutRef' = FALSE
    /\ st' = ResetState(st, mountedRef)
    /\ rn' = st'
    /\ submissionInProgressRef' = FALSE
    /\ succeeded' = FALSE
    /\ log' = [log EXCEPT !.reset = @ + 1]
    /\ UNCHANGED <<props, mountedRef, awaitingGrade, awaitingExtras, outcome, lastClick>>

\* An auto-reset timeout fires: handleReset if still mounted.
TimeoutFires ==
    /\ timeouts > 0
    /\ \E named \in BOOLEAN :
          \* the timeout that fires is the one the ref names, or an older one
          /\ named => resetTimeoutRef
          /\ ~named => timeouts > (IF resetTimeoutRef THEN 1 ELSE 0)
          /\ IF mountedRef
             THEN /\ resetTimeoutRef' = FALSE
                  /\ timeouts' = IF named THEN timeouts - 1 ELSE TimeoutsAfterClear - 1
                  /\ st' = ResetState(st, mountedRef)
                  /\ submissionInProgressRef' = FALSE
                  /\ succeeded' = FALSE
                  /\ log' = [log EXCEPT !.reset = @ + 1]
             ELSE /\ resetTimeoutRef' = (resetTimeoutRef /\ ~named)
                  /\ timeouts' = timeouts - 1
                  /\ UNCHANGED <<st, submissionInProgressRef, succeeded, log>>
    /\ UNCHANGED <<props, rn, mountedRef, awaitingGrade, awaitingExtras, outcome, lastClick>>

\* React renders the state set outside an event handler.
Render ==
    /\ mountedRef
    /\ rn # st
    /\ rn' = st
    /\ UNCHANGED <<props, st, submissionInProgressRef, mountedRef, timeouts, resetTimeoutRef,
                   awaitingGrade, awaitingExtras, log, outcome, lastClick, succeeded>>

\* The component unmounts: the effect's cleanup.
Unmount ==
    /\ mountedRef
    /\ mountedRef' = FALSE
    /\ timeouts' = TimeoutsAfterClear
    /\ resetTimeoutRef' = FALSE
    /\ submissionInProgressRef' = FALSE
    /\ UNCHANGED <<props, st, rn, awaitingGrade, awaitingExtras, log, outcome, lastClick, succeeded>>

(***************************************************************************)
(* Claims about UniversalActivitySubmit.                                   *)
(***************************************************************************)
\* C4: duplicate submission is prevented: at most one autoGrade mutation (and
\* one handleSubmit call) is in flight at any time, and while a submission is
\* in progress no click starts a second mutation or fires onSubmissionStart
\* again.
C4_NoDuplicateSubmission ==
    /\ awaitingGrade <= 1
    /\ awaitingGrade + awaitingExtras <= 1
    /\ InProgress => (log.mutate = 1 /\ log.start = 1)
    /\ InProgress => submissionInProgressRef \/ ~mountedRef

\* A click arrived while the autoGrade mutation was in flight and was ignored.
C4_Witness ==
    /\ awaitingGrade = 1
    /\ lastClick.did = "blocked"
    /\ lastClick.after = "none"
    /\ log.mutate = 1

\* C5: once a submission has succeeded, no autoGrade mutation is issued until
\* handleReset has run.
C5_NoResubmitBeforeReset == [][succeeded => awaitingGrade' <= awaitingGrade]_vars

\* After a success and its render, a click on the submit button was ignored.
C5_Witness ==
    /\ succeeded
    /\ st.hasSubmitted
    /\ rn = st
    /\ lastClick.did = "blocked"
    /\ lastClick.after = "success"

\* C6: when autoGrade rejects while the component is mounted,
\* onSubmissionError is called exactly once with an Error,
\* onSubmissionComplete is not called, hasSubmitted stays false and
\* submissionResult null, isSubmitting and the in-progress flag return to
\* false, and once rendered a click passes the guard of handleSubmit again.
C6_RejectionHandled ==
    outcome = "rejected" =>
        /\ log.error = 1
        /\ log.errorArg.isError
        /\ log.complete = 0
        /\ ~st.hasSubmitted
        /\ st.submissionResult.isNull
        /\ ~st.isSubmitting
        /\ ~submissionInProgressRef
        /\ (mountedRef /\ rn = st) => ~SubmitBlocked(rn, submissionInProgressRef, mountedRef)

\* A rejection of a non-Error value has been handled and rendered.
C6_Witness ==
    /\ outcome = "rejected"
    /\ mountedRef
    /\ rn = st
    /\ log.errorArg = [isError |-> TRUE, message |-> "An unexpected error occurred"]
    /\ log.toast = "error"

\* C13: after the component has unmounted, a submission that was in flight
\* completes silently: no state setter, no toast, no onSubmissionComplete and
\* no onSubmissionError is invoked, handleReset is not run by a timer, and the
\* in-progress flag is released.
C13_SilentAfterUnmount ==
    /\ [](~mountedRef => ~submissionInProgressRef)
    /\ [][~mountedRef =>
              /\ st' = st
              /\ log' = log
              /\ succeeded' = succeeded
              /\ ~submissionInProgressRef'
              /\ (awaitingGrade' + awaitingExtras' < awaitingGrade + awaitingExtras
                     => outcome' = "silent")]_vars

\* A submission was in flight at the unmount and has since completed: the
\* state is as the unmount left it, and no callback ran.
C13_Witness ==
    /\ ~mountedRef
    /\ ~InProgress
    /\ outcome = "silent"
    /\ st.isSubmitting
    /\ log.start = 1
    /\ log.complete = 0
    /\ log.error = 0
    /\ log.toast = "none"

\* C17: a failure of the achievement mutation or of the analytics mutation
\* never fails the submission: whenever autoGrade has succeeded and the
\* component is still mounted when the two settle, the submission ends as a
\* success (hasSubmitted true, onSubmissionComplete called once more with
\* success = true, onSubmissionError not called), with achievements = [] when
\* the achievement call failed.
C17_ExtrasNeverFailSubmission ==
    [][(awaitingExtras' < awaitingExtras /\ mountedRef) =>
          /\ outcome' = "success"
          /\ st'.hasSubmitted
          /\ st'.submissionResult.success
          /\ log'.complete = log.complete + 1
          /\ log'.completeArg.success
          /\ log'.error = log.error
          /\ log'.toast = "success"
          /\ (log'.extras.achievement = "failed" =>
                 /\ log'.completeArg.achievements = 0
                 /\ st'.submissionResult.achievements = 0)]_vars

\* Both the achievement and the analytics mutation failed, and the submission
\* ended as a success without achievements.
C17_Witness ==
    /\ mountedRef
    /\ outcome = "success"
    /\ log.extras = [achievement |-> "failed", analytics |-> "failed"]
    /\ st.hasSubmitted
    /\ log.complete = 1
    /\ log.error = 0
    /\ log.completeArg = [isNull |-> FALSE, success |-> TRUE, achievements |-> 0]

\* The clicks C18 counts as failing validation: answers missing or an empty
\* object, or validateAnswers returning anything other than true.
C18_FailsValidation(click) ==
    \/ click.answers \in {"missing", "emptyObject"}
    \/ click.validateAnswers \in {"false", "message"}

\* C18: when validation fails, no mutation is issued, onSubmissionStart is
\* not called, an error toast is shown, and isSubmitting, hasSubmitted,
\* submissionResult and the in-progress flag are left unchanged.
C18_InvalidSubmissionChangesNothing ==
    [][(lastClick' # lastClick /\ lastClick'.did # "blocked"
           /\ C18_FailsValidation(lastClick')) =>
          /\ lastClick'.did = "invalid"
          /\ log'.mutate = log.mutate
          /\ log'.start = log.start
          /\ awaitingGrade' = awaitingGrade
          /\ log'.toast = "validation"
          /\ st' = st
          /\ submissionInProgressRef' = submissionInProgressRef]_vars

\* A click with an empty answers object was turned away with the toast
\* after an earlier attempt had been rejected.
C18_Witness ==
    /\ lastClick.did = "invalid"
    /\ lastClick.answers = "emptyObject"
    /\ lastClick.after = "rejected"
    /\ log.toast = "validation"
    /\ log.mutate = 1
    /\ awaitingGrade = 0
    /\ ~st.isSubmitting
    /\ ~submissionInProgressRef

SubmitNext ==
    \/ ClickSubmitBlocked
    \/ ClickSubmitInvalid
    \/ ClickSubmitStarts
    \/ GradeResolves
    \/ GradeRejects
    \/ ExtrasResolve
    \/ ClickTryAgain
    \/ TimeoutFires
    \/ Render
    \/ Unmount

(***************************************************************************)
(* The analysis service behind analyzeStudentPatterns:                     *)
(* LearningPatternRecognitionService.analyzeStudentLearningPatterns.       *)
(* A record is [completedAt, pct]: when it was completed and its           *)
(* percentage score (score / maxScore).                                    *)
(***************************************************************************)
MaxRecords == 6

PctChoices == {0, 50, 55, 60}

AttentionChoices == {"short", "medium"}

NoProfile ==
    [consistencyScore |-> 0, improvementTrend |-> "none", attentionSpan |-> "none",
     riskFactors |-> << >>, strengths |-> << >>]

\* The orders in which the record store may hand over n records.
FetchOrders(n) ==
    {[i \in 1 .. n |-> i], [i \in 1 .. n |-> n + 1 - i], [i \in 1 .. n |-> (i % n) + 1]}

\* n records completed at times 1 .. n with the scores pcts, handed over in
\* the given order.
Fetched(n, pcts, order) ==
    [i \in 1 .. n |-> [completedAt |-> order[i], pct |-> pcts[order[i]]]]

\* The records in time order: the aggregator sorts internally.
TimeOrderedAsFetched(rs) == rs

TimeOrdered(rs) ==
    [i \in 1 .. Len(rs) |->
        CHOOSE r \in Range(rs) :
            Cardinality({q \in Range(rs) : q.completedAt < r.completedAt}) = i - 1]

RECURSIVE SumPct(_, _, _)
\* The sum of pct over rs[from .. to].
SumPct(rs, from, to) ==
    IF from > to THEN 0 ELSE rs[from].pct + SumPct(rs, from + 1, to)

RECURSIVE SumSquares(_, _, _)
SumSquares(rs, from, to) ==
    IF from > to THEN 0 ELSE rs[from].pct * rs[from].pct + SumSquares(rs, from + 1, to)

\* The coefficient of variation (standard deviation / mean) in percent,
\* rounded down and cut off at 100:  sd / mean = sqrt(n * sum(x^2) - sum(x)^2) / sum(x).
CvPercent(rs) ==
    LET n == Len(rs)
        sum == SumPct(rs, 1, n)
        d == n * SumSquares(rs, 1, n) - sum * sum
        q == (10000 * d) \div (sum * sum)
    IN  CHOOSE c \in 0 .. 100 :
            /\ c * c <= q
            /\ c = 100 \/ (c + 1) * (c + 1) > q

\* consistencyScore: 100 minus the normalised coefficient of variation, within
\* [0,100]; 0 when there are fewer than 2 records.  With a mean of 0 the
\* coefficient is 0/0: the score is then whichever end the division yields.
ConsistencyOutcomesFewerThanThree(rs) ==
    IF Len(rs) < 3 THEN {0}
    ELSE IF SumPct(rs, 1, Len(rs)) = 0 THEN {0, 100}
    ELSE {100 - CvPercent(rs)}

ConsistencyOutcomes(rs) ==
    IF Len(rs) < 2 THEN {0}
    ELSE IF SumPct(rs, 1, Len(rs)) = 0 THEN {0, 100}
    ELSE {100 - CvPercent(rs)}

\* The number of records in a third.
ThirdSize(n) == n \div 3

\* improvementTrend: the mean of the most recent third against the mean of the
\* earliest third of the time-ordered records.  Both thirds hold k records, so
\* delta > 10 is (sum of recent) - (sum of earliest) > 10 * k.  With no record
\* in a third there is no delta and the trend is the remaining case.
ImprovementTrend(rs) ==
    LET sorted == TimeOrdered(rs)
        n == Len(sorted)
        k == ThirdSize(n)
        diff == SumPct(sorted, n - k + 1, n) - SumPct(sorted, 1, k)
    IN  IF k = 0 THEN "plateauing"
        ELSE IF diff > 10 * k THEN "accelerating"
        ELSE IF diff < -10 * k THEN "declining"
        ELSE IF diff >= -10 * k /\ diff <= 5 * k THEN "steady"
        ELSE "plateauing"

\* The rule table, in its order.
DeriveRisks(p) ==
    (IF p.consistencyScore < 40 THEN <<"inconsistent performance">> ELSE << >>)
        \o (IF p.improvementTrend = "declining" THEN <<"declining trend">> ELSE << >>)
        \o (IF p.attentionSpan = "short" /\ p.consistencyScore < 60
            THEN <<"low engagement">> ELSE << >>)

DeriveStrengths(p) ==
    IF p.consistencyScore >= 80 THEN <<"consistent performer">> ELSE << >>

\* The neutral profiles returned when there is no record in the window.
NeutralProfiles ==
    {[consistencyScore |-> 0, improvementTrend |-> "plateauing",
      attentionSpan |-> "medium", riskFactors |-> r, strengths |-> << >>] :
        r \in {<< >>, <<"insufficient data">>}}

\* The profiles aggregate and the rule table give for a set of records.
ComputedProfiles(rs, att) ==
    {LET partial == [consistencyScore |-> cs, improvementTrend |-> ImprovementTrend(rs),
                     attentionSpan |-> att, riskFactors |-> << >>, strengths |-> << >>]
     IN  [partial EXCEPT !.riskFactors = DeriveRisks(partial),
                         !.strengths = DeriveStrengths(partial)] :
        cs \in ConsistencyOutcomes(rs)}

\* analyzeStudentLearningPatterns: what it may return for the records found.
AnalyzeAlwaysByRules(rs, att) ==
    IF rs = << >> THEN ComputedProfiles(rs, "medium") ELSE ComputedProfiles(rs, att)

AnalyzeStudentLearningPatterns(rs, att) ==
    IF rs = << >> THEN NeutralProfiles ELSE ComputedProfiles(rs, att)

ServiceInitWith(rs, att) ==
    /\ records = rs
    /\ attention = att
    /\ profile = NoProfile
    /\ apc = "ready"

ServiceInit ==
    \E n \in 0 .. MaxRecords : \E pcts \in [1 .. n -> PctChoices] :
        \E order \in FetchOrders(n) : \E att \in AttentionChoices :
            ServiceInitWith(Fetched(n, pcts, order), att)

\* One analyzeStudentPatterns request on the records found.
Analyze ==
    /\ apc = "ready"
    /\ \E p \in AnalyzeStudentLearningPatterns(records, attention) : profile' = p
    /\ apc' = "analysed"
    /\ UNCHANGED <<records, attention>>

ServiceNext == Analyze

(***************************************************************************)
(* Claims about the analysis.                                              *)
(***************************************************************************)
Analysed == apc = "analysed"

AllSamePct(rs) ==
    /\ rs # << >>
    /\ \A i, j \in DOMAIN rs : rs[i].pct = rs[j].pct

UniformlyConsistent ==
    /\ profile.consistencyScore = 100
    /\ "consistent performer" \in Range(profile.strengths)
    /\ profile.riskFactors = << >>

\* C9 (as claimed): for every non-empty record set whose records all score the
\* same percentage, whatever their number, consistencyScore is 100, strengths
\* include "consistent performer" and riskFactors is empty.
C9_AnyUniformSetIsConsistent ==
    (Analysed /\ AllSamePct(records)) => UniformlyConsistent

\* C9 (amended): the same for every set of at least two records that all
\* score the same percentage above zero.
C9_UniformSetOfTwoOrMoreIsConsistent ==
    (Analysed /\ AllSamePct(records) /\ Len(records) >= 2 /\ records[1].pct > 0)
        => UniformlyConsistent

\* Three or more records all scoring 50%, short attention span, analysed.
C9_Witness ==
    /\ Analysed
    /\ Len(records) >= 3
    /\ AllSamePct(records)
    /\ records[1].pct = 50
    /\ attention = "short"
    /\ profile.consistencyScore = 100

\* Scores rise strictly with completedAt.
StrictlyIncreasing(rs) ==
    \A i, j \in DOMAIN rs :
        rs[i].completedAt < rs[j].completedAt => rs[i].pct < rs[j].pct

\* Scores never fall as completedAt grows.
NeverDecreasing(rs) ==
    \A i, j \in DOMAIN rs :
        rs[i].completedAt < rs[j].completedAt => rs[i].pct <= rs[j].pct

RECURSIVE SumCompletedIn(_, _, _, _)
\* The sum of pct over the records rs[i ..] completed at a time in lo .. hi.
SumCompletedIn(rs, i, lo, hi) ==
    IF i > Len(rs) THEN 0
    ELSE (IF rs[i].completedAt \in lo .. hi THEN rs[i].pct ELSE 0)
             + SumCompletedIn(rs, i + 1, lo, hi)

\* Sum of the most recent third minus sum of the earliest third (the records
\* are completed at times 1 .. n).
RecentMinusEarliest(rs) ==
    LET n == Len(rs)
        k == n \div 3
    IN  SumCompletedIn(rs, 1, n - k + 1, n) - SumCompletedIn(rs, 1, 1, k)

\* C10 (as claimed, for sequences of at least three records, where each third
\* holds a record): whenever scores increase monotonically over time,
\* improvementTrend is "accelerating".
C10_IncreasingIsAccelerating ==
    (Analysed /\ Len(records) >= 3 /\ StrictlyIncreasing(records))
        => profile.improvementTrend = "accelerating"

\* C10 (amended): for at least three records whose scores never decrease over
\* time, in whatever order they are fetched, improvementTrend is never
\* "declining", and it is "accelerating" exactly when the mean of the most
\* recent third exceeds the mean of the earliest third by more than 10 points.
C10_IncreasingNeverDeclines ==
    (Analysed /\ Len(records) >= 3 /\ NeverDecreasing(records)) =>
        /\ profile.improvementTrend # "declining"
        /\ profile.improvementTrend = "accelerating"
               <=> RecentMinusEarliest(records) > 10 * (Len(records) \div 3)

\* Six records with rising scores, fetched latest first, found accelerating.
C10_Witness ==
    /\ Analysed
    /\ Len(records) = 6
    /\ NeverDecreasing(records)
    /\ records[1].completedAt = 6
    /\ records[1].pct > records[6].pct
    /\ profile.improvementTrend = "accelerating"


(***************************************************************************)
(* getClassLearningPatterns under concurrent requests.  Everything the     *)
(* resolver holds is a local of one invocation (service, classStudents,    *)
(* the promises, studentPatterns); the only thing invocations have in      *)
(* common is the record store behind ctx.prisma, which they only read.     *)
(* The service is deterministic: within a behaviour a student's profile is *)
(* what the store holds for that student.                                  *)
(***************************************************************************)
CallIds == {"a", "b"}

NoCall ==
    [pc |-> "idle", classId |-> Null, promises |-> << >>, settled |-> << >>, res |-> NoRes]

ConcurrentInitWith(profiles) ==
    /\ store = profiles
    /\ calls = [r \in CallIds |-> NoCall]

ConcurrentInit == \E profiles \in [StudentIds -> ProfileOutcomes] : ConcurrentInitWith(profiles)

\* The resolver is invoked and suspends at the enrollment query.
CallStarts(r) ==
    /\ calls[r].pc = "idle"
    /\ \E input \in Inputs("getClassLearningPatterns") :
          calls' = [calls EXCEPT ![r] = [NoCall EXCEPT !.pc = "findMany",
                                                       !.classId = input.classId]]
    /\ UNCHANGED store

\* The enrollment query answers: one promise per enrollment, in enrollment
\* order, and the resolver suspends at Promise.all.
CallStudentsLoaded(r) ==
    /\ calls[r].pc = "findMany"
    /\ LET classStudents == Enrollments(calls[r].classId)
       IN  calls' = [calls EXCEPT ![r].pc = "awaitAll",
                                  ![r].promises =
                                      [i \in DOMAIN classStudents |->
                                          NewTask(StudentSubject(classStudents[i]))]]
    /\ UNCHANGED store

\* The analysis of one student completes, in whatever order the store answers.
PromiseFulfils(r) ==
    /\ calls[r].pc \in {"awaitAll", "done"}
    /\ \E i \in DOMAIN calls[r].promises :
          /\ calls[r].promises[i].status = "pending"
          /\ calls' = [calls EXCEPT
                 ![r].promises[i] =
                     [@ EXCEPT !.status = "fulfilled",
                               !.result = store[calls[r].promises[i].subject.studentId]],
                 ![r].settled = Append(@, i)]
    /\ UNCHANGED store

\* The analysis of one student fails (the record store is unavailable).
PromiseRejects(r) ==
    /\ calls[r].pc \in {"awaitAll", "done"}
    /\ \E i \in DOMAIN calls[r].promises :
          /\ calls[r].promises[i].status = "pending"
          /\ calls' = [calls EXCEPT ![r].promises[i] = [@ EXCEPT !.status = "rejected"],
                                    ![r].settled = Append(@, i)]
    /\ UNCHANGED store

\* The array Promise.all fulfils with: the values in the order of the promises
\* given, whatever the order they settled in.
PromiseAllValuesAsSettled(ps, settled) == [i \in DOMAIN settled |-> ps[settled[i]]]

PromiseAllValues(ps, settled) == ps

\* Promise.all fulfils and the resolver returns its object.
CallReturns(r) ==
    /\ calls[r].pc = "awaitAll"
    /\ PromiseAllFulfils(calls[r].promises)
    /\ calls' = [calls EXCEPT
           ![r].pc = "done",
           ![r].res = [status |-> "ok",
                       body |-> ClassPatternsResult(
                                    calls[r].classId, Enrollments(calls[r].classId),
                                    PromiseAllValues(calls[r].promises, calls[r].settled))]]
    /\ UNCHANGED store

\* Promise.all rejects: the resolver throws.
CallThrows(r) ==
    /\ calls[r].pc = "awaitAll"
    /\ PromiseAllRejects(calls[r].promises)
    /\ calls' = [calls EXCEPT ![r].pc = "done",
                              ![r].res = [status |-> "error",
                                          code |-> "INTERNAL_SERVER_ERROR"]]
    /\ UNCHANGED store

\* The response is delivered and the invocation's locals are gone.
CallEnds(r) ==
    /\ calls[r].pc = "done"
    /\ calls' = [calls EXCEPT ![r] = NoCall]
    /\ UNCHANGED store

(***************************************************************************)
(* Claims about concurrent analyses.                                       *)
(***************************************************************************)
\* What a class request must answer, from the enrollments and the store alone.
ExpectedStudentPatterns(classId) ==
    [i \in DOMAIN Enrollments(classId) |->
        [studentId |-> Enrollments(classId)[i],
         patterns |-> store[Enrollments(classId)[i]]]]

\* No step of one invocation changes anything another invocation holds.
CallsDisjoint ==
    \A r \in CallIds :
        calls'[r] # calls[r] =>
            /\ \A q \in CallIds \ {r} : calls'[q] = calls[q]
            /\ store' = store

\* C11: the per-student analyses of one getClassLearningPatterns request may
\* complete in any order, and whatever the order, a request that is answered
\* has exactly one studentPatterns entry per enrollment, in enrollment order,
\* each with the profile of its own student, and the averages of exactly those
\* profiles; no step of a request changes what a concurrent request holds.
C11_AnalysesIndependent ==
    /\ [](\A r \in CallIds :
             calls[r].res.status = "ok" =>
                 /\ calls[r].res.body.studentPatterns
                        = ExpectedStudentPatterns(calls[r].classId)
                 /\ calls[r].res.body.studentCount = Len(Enrollments(calls[r].classId))
                 /\ calls[r].res.body.classAverages.consistencyScore
                        = MeanOf([i \in DOMAIN Enrollments(calls[r].classId) |->
                                     store[Enrollments(calls[r].classId)[i]].consistencyScore]))
    /\ [][CallsDisjoint]_vars

\* Two requests for the same class are in flight with different profiles per
\* student; one has been answered although its last student completed first,
\* the other has so far completed its first student only.
C11_Witness ==
    /\ calls["a"].classId = "c1"
    /\ calls["b"].classId = "c1"
    /\ calls["a"].res.status = "ok"
    /\ Len(calls["a"].settled) >= 2
    /\ calls["a"].settled[1] = Len(calls["a"].promises)
    /\ calls["b"].pc = "awaitAll"
    /\ calls["b"].settled = <<1>>
    /\ store[1] # store[2]

(***************************************************************************)
(* The StudentLearningProfile card (EnhancedGradebook.tsx): the four       *)
(* derived lists of a profile and what the card shows of each.             *)
(***************************************************************************)
MaxItems == 4

MotivationTriggersShown == 3

RiskFactorsShown == 2

StrengthsShown == 3

RecommendationsShown == 2

Severities == <<"low", "medium", "high">>

\* The lists a profile may carry: n items, numbered from k + 1 in the order
\* received.
ItemLists == {[i \in 1 .. n |-> i + k] : n \in 0 .. MaxItems, k \in {0, 1}}

\* The risk factor the service reports as item number x.
RiskFactor(x) == [factor |-> x, severity |-> Severities[(x % 3) + 1]]

RiskLists == {[i \in DOMAIN l |-> RiskFactor(l[i])] : l \in ItemLists}

Min(a, b) == IF a < b THEN a ELSE b

\* Array.prototype.slice(start, end) for 0 <= start <= end: the items at the
\* zero-based positions start .. end - 1 that exist.
SliceThroughEnd(xs, start, end) == SubSeq(xs, start + 1, Min(end + 1, Len(xs)))

Slice(xs, start, end) == SubSeq(xs, start + 1, Min(end, Len(xs)))

GetSeverityColor(severity) ==
    CASE severity = "high"   -> "destructive"
      [] severity = "medium" -> "warning"
      [] severity = "low"    -> "secondary"
      [] OTHER               -> "secondary"

\* {list.length > 0 && (... list.slice(0, shown).map(...) ...)}
Section(list, shown) ==
    IF Len(list) > 0
    THEN [rendered |-> TRUE, items |-> Slice(list, 0, shown)]
    ELSE [rendered |-> FALSE, items |-> << >>]

\* The risk rows: the factor, and a badge with the severity.
RiskRows(section) ==
    [section EXCEPT !.items =
        [i \in DOMAIN section.items |->
            [factor |-> section.items[i].factor,
             badge |-> section.items[i].severity,
             variant |-> GetSeverityColor(section.items[i].severity)]]]

NoSection == [rendered |-> FALSE, items |-> << >>]

NoCard ==
    [isRendered |-> FALSE, motivationTriggers |-> NoSection, riskFactors |-> NoSection,
     strengths |-> NoSection, adaptiveRecommendations |-> NoSection]

StudentLearningProfile(p) ==
    [isRendered |-> TRUE,
     motivationTriggers |-> Section(p.motivationTriggers, MotivationTriggersShown),
     riskFactors |-> RiskRows(Section(p.riskFactors, RiskFactorsShown)),
     strengths |-> Section(p.strengths, StrengthsShown),
     adaptiveRecommendations |->
         Section(p.adaptiveRecommendations, RecommendationsShown)]

CardInitWith(p) ==
    /\ cardProfile = p
    /\ card = NoCard

CardInit ==
    \E t \in ItemLists : \E r \in RiskLists : \E g \in ItemLists : \E a \in ItemLists :
        CardInitWith([motivationTriggers |-> t, riskFactors |-> r, strengths |-> g,
                      adaptiveRecommendations |-> a])

\* React renders the card for its profile prop.
RenderCard ==
    /\ ~card.isRendered
    /\ card' = StudentLearningProfile(cardProfile)
    /\ UNCHANGED cardProfile

\* The page hands the card another student's profile and React renders again.
RenderCardAgain ==
    /\ card.isRendered
    /\ \E r \in RiskLists :
          /\ r # cardProfile.riskFactors
          /\ cardProfile' = [cardProfile EXCEPT !.riskFactors = r]
    /\ card' = StudentLearningProfile(cardProfile')

(***************************************************************************)
(* Claims about the card.                                                  *)
(***************************************************************************)
\* A section shows exactly the leading items of its list, at most cap of them,
\* and is there exactly when the list is not empty.
ShowsLeading(section, list, cap) ==
    /\ section.rendered <=> Len(list) > 0
    /\ Len(section.items) <= cap
    /\ Len(section.items) = (IF Len(list) < cap THEN Len(list) ELSE cap)
    /\ \A i \in DOMAIN section.items : section.items[i] = list[i]

\* The factors and severities the risk rows show, as a section of risk factors.
ShownRisks(section) ==
    [section EXCEPT !.items =
        [i \in DOMAIN section.items |->
            [factor |-> section.items[i].factor, severity |-> section.items[i].badge]]]

\* C12: the card shows at most 2 risk factors, 3 strengths, 2 adaptive
\* recommendations and 3 motivation triggers, always the leading items of the
\* list in the order received, and omits a section exactly when its list is
\* empty.
C12_CardShowsLeadingItems ==
    card.isRendered =>
        /\ ShowsLeading(ShownRisks(card.riskFactors), cardProfile.riskFactors, 2)
        /\ ShowsLeading(card.strengths, cardProfile.strengths, 3)
        /\ ShowsLeading(card.adaptiveRecommendations,
                        cardProfile.adaptiveRecommendations, 2)
        /\ ShowsLeading(card.motivationTriggers, cardProfile.motivationTriggers, 3)

\* A profile with four risk factors, four strengths, three recommendations and
\* no motivation trigger has been rendered.
C12_Witness ==
    /\ card.isRendered
    /\ Len(cardProfile.riskFactors) = 4
    /\ Len(cardProfile.strengths) = 4
    /\ Len(cardProfile.adaptiveRecommendations) = 3
    /\ cardProfile.motivationTriggers = << >>
    /\ Len(card.riskFactors.items) = 2
    /\ ~card.motivationTriggers.rendered

(***************************************************************************)
(* TeacherLayout (src/app/teacher/layout.tsx), a server component.         *)
(* redirect() of next/navigation does not return: it throws an error with  *)
(* digest NEXT_REDIRECT that carries the target, and the framework turns   *)
(* the error that leaves the component into the redirect response.  An     *)
(* error thrown inside the try block is caught by the catch block like any *)
(* other.  cachedQueries.getCachedQuery(key, fn, ttl) returns the entry    *)
(* cached under key if there is one, and otherwise the value fn resolves   *)
(* to, which it caches; a rejection of fn is passed on.                    *)
(***************************************************************************)
UserIds == {"u1", "u2"}

UserTypes == {"CAMPUS_TEACHER", "TEACHER", "CAMPUS_STUDENT"}

\* What getSessionCache returns: no session (or no user id), or a user.
NoSession == [userId |-> Null, userType |-> "none"]

Sessions == {NoSession} \cup {[userId |-> u, userType |-> t] : u \in UserIds, t \in UserTypes}

\* userType === UserType.CAMPUS_TEACHER || userType === 'TEACHER'
IsTeacherTypeOrStudent(t) == t \in {"CAMPUS_TEACHER", "TEACHER", "CAMPUS_STUDENT"}

IsTeacherType(t) == t \in {"CAMPUS_TEACHER", "TEACHER"}

\* The value of dbUser: null, or the user row with its teacherProfile.
NullUser == [isNull |-> TRUE, userType |-> "none", teacherProfileId |-> FALSE]

UserRow(t) == [isNull |-> FALSE, userType |-> t, teacherProfileId |-> FALSE]

\* { ...result, teacherProfile }
WithTeacherProfile(result, hasId) == [result EXCEPT !.teacherProfileId = hasId]

NoEntry == [cached |-> FALSE, value |-> NullUser]

Entry(v) == [cached |-> TRUE, value |-> v]

NoProfileEntry == [cached |-> FALSE, hasId |-> FALSE]

ProfileEntry(hasId) == [cached |-> TRUE, hasId |-> hasId]

NoOut == [kind |-> "none", url |-> "none", check |-> "none", named |-> "none"]

\* The error redirect(url) throws.
Redirect(url) == [digest |-> "NEXT_REDIRECT", url |-> url]

\* Any other error.
OtherError == [digest |-> "none", url |-> "none"]

\* The catch block: whatever was thrown in the try block, it logs and calls
\* redirect("/login"), whose error leaves the component.
CatchBlock(error) == Redirect("/login")

\* The response when the error thrown leaves the component.
RedirectResponse(error, check, named) ==
    [kind |-> "redirect", url |-> error.url, check |-> check, named |-> named]

\* "return redirect(url)" inside the try block, at the check named.
RedirectInTry(url, check) == RedirectResponse(CatchBlock(Redirect(url)), check, url)

\* An error other than a redirect thrown inside the try block.
ErrorInTry == RedirectResponse(CatchBlock(OtherError), "error", "/login")

ChildrenRendered == [kind |-> "children", url |-> "none", check |-> "none", named |-> "none"]

\* Lines 76-97: the checks on dbUser and the render.
AfterDbUser(d) ==
    IF d.isNull THEN RedirectInTry("/login", "userNotFound")
    ELSE IF ~d.teacherProfileId THEN RedirectInTry("/unauthorized", "noProfile")
    ELSE ChildrenRendered

LayoutInit ==
    /\ lpc = "idle"
    /\ session = NoSession
    /\ dbUser = NullUser
    /\ userCache = [u \in UserIds |-> NoEntry]
    /\ profileCache = [u \in UserIds |-> NoProfileEntry]
    /\ layoutOut = NoOut

\* A request for a page under /teacher: the component awaits getSessionCache.
LayoutRequest ==
    /\ lpc = "idle"
    /\ \E s \in Sessions : session' = s
    /\ lpc' = "getSession"
    /\ UNCHANGED <<dbUser, userCache, profileCache, layoutOut>>

\* getSessionCache rejects.
GetSessionThrows ==
    /\ lpc = "getSession"
    /\ layoutOut' = ErrorInTry
    /\ lpc' = "done"
    /\ UNCHANGED <<session, dbUser, userCache, profileCache>>

\* getSessionCache answers: the two session checks, then getCachedQuery, which
\* answers from its cache or starts the user lookup.
GetSessionReturns ==
    /\ lpc = "getSession"
    /\ IF session.userId = Null
       THEN /\ layoutOut' = RedirectInTry("/login", "noSession")
            /\ lpc' = "done"
            /\ UNCHANGED dbUser
       ELSE IF ~IsTeacherType(session.userType)
       THEN /\ layoutOut' = RedirectInTry("/unauthorized", "notTeacher")
            /\ lpc' = "done"
            /\ UNCHANGED dbUser
       ELSE IF userCache[session.userId].cached
       THEN /\ dbUser' = userCache[session.userId].value
            /\ layoutOut' = AfterDbUser(dbUser')
            /\ lpc' = "done"
       ELSE /\ lpc' = "getUser"
            /\ UNCHANGED <<dbUser, layoutOut>>
    /\ UNCHANGED <<session, userCache, profileCache>>

\* getUserWithCache answers before the timeout: no row, a row of a user who is
\* not a teacher, or a teacher row, for which the profile is looked up (in
\* its own cache first).
GetUserAnswers ==
    /\ lpc = "getUser"
    /\ \E found \in BOOLEAN : \E t \in UserTypes :
          LET result == IF found THEN UserRow(t) ELSE NullUser
              u == session.userId
          IN  IF ~result.isNull /\ IsTeacherType(result.userType) /\ ~profileCache[u].cached
              THEN /\ dbUser' = result
                   /\ lpc' = "getProfile"
                   /\ UNCHANGED <<userCache, layoutOut>>
              ELSE /\ dbUser' = IF result.isNull THEN NullUser
                                ELSE IF IsTeacherType(result.userType)
                                THEN WithTeacherProfile(result, profileCache[u].hasId)
                                ELSE WithTeacherProfile(result, FALSE)
                   /\ userCache' = [userCache EXCEPT ![u] = Entry(dbUser')]
                   /\ layoutOut' = AfterDbUser(dbUser')
                   /\ lpc' = "done"
    /\ UNCHANGED <<session, profileCache>>

\* The user lookup fails: it rejects, or the 5-second timer rejects first.
GetUserRejects ==
    /\ lpc = "getUser"
    /\ layoutOut' = ErrorInTry
    /\ lpc' = "done"
    /\ UNCHANGED <<session, dbUser, userCache, profileCache>>

\* prisma.teacherProfile.findFirst answers: a profile (with its id) or none.
GetProfileAnswers ==
    /\ lpc = "getProfile"
    /\ \E hasId \in BOOLEAN :
          /\ profileCache' = [profileCache EXCEPT ![session.userId] = ProfileEntry(hasId)]
          /\ dbUser' = WithTeacherProfile(dbUser, hasId)
    /\ userCache' = [userCache EXCEPT ![session.userId] = Entry(dbUser')]
    /\ layoutOut' = AfterDbUser(dbUser')
    /\ lpc' = "done"
    /\ UNCHANGED session

\* The profile lookup fails: the inner catch returns the row without profile.
GetProfileThrows ==
    /\ lpc = "getProfile"
    /\ dbUser' = WithTeacherProfile(dbUser, FALSE)
    /\ userCache' = [userCache EXCEPT ![session.userId] = Entry(dbUser')]
    /\ layoutOut' = AfterDbUser(dbUser')
    /\ lpc' = "done"
    /\ UNCHANGED <<session, profileCache>>

\* The response has been sent.
LayoutEnds ==
    /\ lpc = "done"
    /\ lpc' = "idle"
    /\ session' = NoSession
    /\ dbUser' = NullUser
    /\ layoutOut' = NoOut
    /\ UNCHANGED <<userCache, profileCache>>

\* The entries cached for a user expire (5 minutes and 2 minutes).
CacheExpires ==
    /\ \E u \in UserIds :
          /\ userCache[u].cached \/ profileCache[u].cached
          /\ \/ /\ userCache' = [userCache EXCEPT ![u] = NoEntry]
                /\ UNCHANGED profileCache
             \/ /\ profileCache' = [profileCache EXCEPT ![u] = NoProfileEntry]
                /\ UNCHANGED userCache
          /\ userCache' # userCache \/ profileCache' # profileCache
    /\ UNCHANGED <<lpc, session, dbUser, layoutOut>>

(***************************************************************************)
(* Claims about TeacherLayout.                                             *)
(***************************************************************************)
\* C14: TeacherLayout renders its children only when the session has a user
\* id, the session userType is CAMPUS_TEACHER or TEACHER, the user record is
\* found and a teacher profile id exists; in every other case, a lookup that
\* times out and any thrown error included, the children are never rendered
\* and the request ends in a redirect.
C14_ChildrenOnlyForTeachers ==
    /\ lpc # "done" => layoutOut.kind = "none"
    /\ lpc = "done" => layoutOut.kind \in {"children", "redirect"}
    /\ layoutOut.kind = "children" =>
          /\ session.userId # Null
          /\ session.userType \in {"CAMPUS_TEACHER", "TEACHER"}
          /\ ~dbUser.isNull
          /\ dbUser.teacherProfileId
    /\ (lpc = "done" /\ layoutOut.kind # "children") =>
          /\ layoutOut.kind = "redirect"
          /\ layoutOut.url \in {"/login", "/unauthorized"}

\* The user lookup of a teacher's request failed and the request was redirected.
C14_Witness ==
    /\ lpc = "done"
    /\ session.userType = "TEACHER"
    /\ layoutOut.kind = "redirect"
    /\ layoutOut.check = "error"
    /\ dbUser.isNull

\* The target each check names.
NamedTarget(check) ==
    CASE check = "noSession"    -> "/login"
      [] check = "notTeacher"   -> "/unauthorized"
      [] check = "userNotFound" -> "/login"
      [] check = "noProfile"    -> "/unauthorized"
      [] OTHER                  -> "/login"

\* C15: TeacherLayout sends each rejected request to the target named at its
\* check: no session user id to /login, a user who is not a teacher to
\* /unauthorized, user record not found to /login, teacher profile missing or
\* its lookup failed to /unauthorized, and only an unexpected error to /login.
C15_RedirectToNamedTarget ==
    layoutOut.kind = "redirect" => layoutOut.url = NamedTarget(layoutOut.check)

(***************************************************************************)
(* ClassActivitiesPage (src/unnamed/part_000): the list of a class's       *)
(* activities and its onEdit / onView handlers.  The list is what the      *)
(* listActivities query last fetched (staleTime 5 minutes, no refetch on   *)
(* window focus); students submit in the meantime.                         *)
(***************************************************************************)
MaxGrades == 2

ActivityIds == {"a1", "a2"}

AuthStates ==
    {[status |-> "loading", userType |-> "none"],
     [status |-> "unauthenticated", userType |-> "none"],
     [status |-> "authenticated", userType |-> "TEACHER"],
     [status |-> "authenticated", userType |-> "CAMPUS_TEACHER"],
     [status |-> "authenticated", userType |-> "CAMPUS_STUDENT"]}

NoData == [loaded |-> FALSE, items |-> [a \in ActivityIds |-> [hasCount |-> FALSE, activityGrades |-> 0]]]

ListRoute == [page |-> "activities", activityId |-> Null]

NoEdit == [did |-> "none", activityId |-> Null, totalSubmissions |-> 0, submitted |-> 0]

\* activity._count?.activityGrades || 0
TotalSubmissions(item) == IF item.hasCount THEN item.activityGrades ELSE 0

\* transformedActivities: the part the handlers read.
TransformedActivity(a) ==
    [id |-> a, stats |-> [totalSubmissions |-> TotalSubmissions(activitiesData.items[a])]]

\* The guard of onEdit: if (activity.stats.totalSubmissions > 0) { toast; return; }
EditRefusedNever(activity) == FALSE

EditRefused(activity) == activity.stats.totalSubmissions > 0

\* The query's enabled option, with classId present.
QueryEnabled == auth.status = "authenticated"

\* The branch of the page that renders ActivityList.
ActivityListRendered ==
    /\ route = ListRoute
    /\ auth.status = "authenticated"
    /\ auth.userType \in {"CAMPUS_TEACHER", "TEACHER"}
    /\ ~activitiesError
    /\ activitiesData.loaded

PageInit ==
    /\ auth = [status |-> "loading", userType |-> "none"]
    /\ grades = [a \in ActivityIds |-> 0]
    /\ activitiesData = NoData
    /\ activitiesError = FALSE
    /\ route = ListRoute
    /\ pageToast = "none"
    /\ lastEdit = NoEdit

\* useSession settles; the effect pushes /login when unauthenticated.
SessionSettles ==
    /\ auth.status = "loading"
    /\ \E a \in AuthStates :
          /\ a.status # "loading"
          /\ auth' = a
          /\ route' = IF a.status = "unauthenticated"
                      THEN [page |-> "login", activityId |-> Null] ELSE route
    /\ UNCHANGED <<grades, activitiesData, activitiesError, pageToast, lastEdit>>

\* The query fetches (first load, Retry or Refresh): the items with their
\* counts as the database has them now, or without the _count relation.
ActivitiesFetched ==
    /\ QueryEnabled
    /\ route = ListRoute
    /\ \E hasCount \in BOOLEAN :
          activitiesData' =
              [loaded |-> TRUE,
               items |-> [a \in ActivityIds |->
                             [hasCount |-> hasCount,
                              activityGrades |-> IF hasCount THEN grades[a] ELSE 0]]]
    /\ activitiesError' = FALSE
    /\ UNCHANGED <<auth, grades, route, pageToast, lastEdit>>

\* The query fails: onError shows the error toast.
ActivitiesFetchFails ==
    /\ QueryEnabled
    /\ route = ListRoute
    /\ ~activitiesError
    /\ activitiesError' = TRUE
    /\ pageToast' = "Error"
    /\ UNCHANGED <<auth, grades, activitiesData, route, lastEdit>>

\* A student submits an attempt at an activity: one more activityGrades row.
StudentSubmits ==
    /\ \E a \in ActivityIds :
          /\ grades[a] < MaxGrades
          /\ grades' = [grades EXCEPT ![a] = @ + 1]
    /\ UNCHANGED <<auth, activitiesData, activitiesError, route, pageToast, lastEdit>>

\* onEdit on an activity the guard refuses: the toast, and no navigation.
OnEditRefused ==
    /\ ActivityListRendered
    /\ \E a \in ActivityIds :
          LET activity == TransformedActivity(a)
          IN  /\ EditRefused(activity)
              /\ lastEdit' = [did |-> "refused", activityId |-> a,
                              totalSubmissions |-> activity.stats.totalSubmissions,
                              submitted |-> grades[a]]
    /\ pageToast' = "Cannot Edit Activity"
    /\ UNCHANGED <<auth, grades, activitiesData, activitiesError, route>>

\* onEdit on an activity the guard lets through: router.push of the edit route.
OnEditNavigates ==
    /\ ActivityListRendered
    /\ \E a \in ActivityIds :
          LET activity == TransformedActivity(a)
          IN  /\ ~EditRefused(activity)
              /\ lastEdit' = [did |-> "navigated", activityId |-> a,
                              totalSubmissions |-> activity.stats.totalSubmissions,
                              submitted |-> grades[a]]
              /\ route' = [page |-> "edit", activityId |-> a]
    /\ UNCHANGED <<auth, grades, activitiesData, activitiesError, pageToast>>

\* onView: router.push of the activity's route.
OnView ==
    /\ ActivityListRendered
    /\ \E a \in ActivityIds : route' = [page |-> "view", activityId |-> a]
    /\ UNCHANGED <<auth, grades, activitiesData, activitiesError, pageToast, lastEdit>>

\* The teacher comes back to the list; the query still holds what it fetched.
BackToList ==
    /\ route.page \in {"edit", "view"}
    /\ route' = ListRoute
    /\ lastEdit' = NoEdit
    /\ pageToast' = "none"
    /\ UNCHANGED <<auth, grades, activitiesData, activitiesError>>

(***************************************************************************)
(* Claims about ClassActivitiesPage.                                       *)
(***************************************************************************)
\* C16 (as claimed): an activity that already has at least one student
\* submission is never opened for editing.
C16_SubmittedNeverOpenedForEdit ==
    route.page = "edit" => lastEdit.submitted = 0

\* The edit route is only ever opened by an onEdit that found 0 submissions.
EditOpensOnlyOnZero ==
    /\ route.page = "edit" =>
          /\ lastEdit.did = "navigated"
          /\ lastEdit.activityId = route.activityId
          /\ lastEdit.totalSubmissions = 0
          /\ TotalSubmissions(activitiesData.items[route.activityId]) = 0
    /\ lastEdit.did = "navigated" => lastEdit.totalSubmissions = 0
    /\ lastEdit.did = "refused" => lastEdit.totalSubmissions > 0

\* A refused onEdit shows the toast and leaves the route alone.
RefusedEditStays ==
    (lastEdit' # lastEdit /\ lastEdit'.did = "refused") =>
        /\ pageToast' = "Cannot Edit Activity"
        /\ route' = route

\* C16 (amended): onEdit navigates to the edit route only when the
\* totalSubmissions the page holds for the activity (the activityGrades count
\* of the list last fetched, 0 when the count is absent) is 0; otherwise it
\* shows the "Cannot Edit Activity" toast and does not navigate.
C16_EditGuardedByFetchedCount == []EditOpensOnlyOnZero /\ [][RefusedEditStays]_vars

\* onEdit was refused for an activity whose fetched count is 2.
C16_Witness ==
    /\ lastEdit.did = "refused"
    /\ lastEdit.totalSubmissions = 2
    /\ pageToast = "Cannot Edit Activity"
    /\ route = ListRoute

(***************************************************************************)
(* Specifications.                                                         *)
(***************************************************************************)
DefaultProps == [showTryAgain |-> TRUE, autoReset |-> FALSE]

ServiceParked == ServiceInitWith(<< >>, "medium")

ConcurrentParked ==
    ConcurrentInitWith([s \in StudentIds |-> [consistencyScore |-> Num(100), riskFactors |-> 0]])

CardParked ==
    CardInitWith([motivationTriggers |-> << >>, riskFactors |-> << >>, strengths |-> << >>,
                  adaptiveRecommendations |-> << >>])

\* Every part but the router, at rest.
RouterRest ==
    /\ SubmitInitWith(DefaultProps) /\ ServiceParked /\ ConcurrentParked /\ CardParked
    /\ LayoutInit /\ PageInit

\* The router alone.
Init == RouterInit /\ RouterRest

Next ==
    \/ RequestUnauthorized /\ UNCHANGED notRouterVars
    \/ RequestBadInput /\ UNCHANGED notRouterVars
    \/ StudentRequest /\ UNCHANGED notRouterVars
    \/ ClassRequest /\ UNCHANGED notRouterVars
    \/ ClassStudentsLoaded /\ UNCHANGED notRouterVars
    \/ InsightsRequestWithClasses /\ UNCHANGED notRouterVars
    \/ InsightsRequestNoClasses /\ UNCHANGED notRouterVars
    \/ TeacherClassesLoaded /\ UNCHANGED notRouterVars
    \/ TaskFulfils /\ UNCHANGED notRouterVars
    \/ TaskRejects /\ UNCHANGED notRouterVars
    \/ AwaitFulfils /\ UNCHANGED notRouterVars
    \/ AwaitRejects /\ UNCHANGED notRouterVars
    \/ RequestEnds /\ UNCHANGED notRouterVars

Spec == Init /\ [][Next]_vars

\* The submit component alone.
SubmitSpecInit ==
    /\ SubmitInit /\ RouterInit /\ ServiceParked /\ ConcurrentParked /\ CardParked
    /\ LayoutInit /\ PageInit

SubmitSpecNext ==
    \/ ClickSubmitBlocked /\ UNCHANGED notSubmitVars
    \/ ClickSubmitInvalid /\ UNCHANGED notSubmitVars
    \/ ClickSubmitStarts /\ UNCHANGED notSubmitVars
    \/ GradeResolves /\ UNCHANGED notSubmitVars
    \/ GradeRejects /\ UNCHANGED notSubmitVars
    \/ ExtrasResolve /\ UNCHANGED notSubmitVars
    \/ ClickTryAgain /\ UNCHANGED notSubmitVars
    \/ TimeoutFires /\ UNCHANGED notSubmitVars
    \/ Render /\ UNCHANGED notSubmitVars
    \/ Unmount /\ UNCHANGED notSubmitVars

SubmitSpec == SubmitSpecInit /\ [][SubmitSpecNext]_vars

\* The analysis service alone.
ServiceSpecInit ==
    /\ ServiceInit /\ RouterInit /\ SubmitInitWith(DefaultProps) /\ ConcurrentParked
    /\ CardParked /\ LayoutInit /\ PageInit

ServiceSpecNext == Analyze /\ UNCHANGED notServiceVars

ServiceSpec == ServiceSpecInit /\ [][ServiceSpecNext]_vars

\* Concurrent getClassLearningPatterns requests alone.
ConcurrentSpecInit ==
    /\ ConcurrentInit /\ RouterInit /\ SubmitInitWith(DefaultProps) /\ ServiceParked
    /\ CardParked /\ LayoutInit /\ PageInit

ConcurrentSpecNext ==
    \/ (\E r \in CallIds : CallStarts(r)) /\ UNCHANGED notConcurrentVars
    \/ (\E r \in CallIds : CallStudentsLoaded(r)) /\ UNCHANGED notConcurrentVars
    \/ (\E r \in CallIds : PromiseFulfils(r)) /\ UNCHANGED notConcurrentVars
    \/ (\E r \in CallIds : PromiseRejects(r)) /\ UNCHANGED notConcurrentVars
    \/ (\E r \in CallIds : CallReturns(r)) /\ UNCHANGED notConcurrentVars
    \/ (\E r \in CallIds : CallThrows(r)) /\ UNCHANGED notConcurrentVars
    \/ (\E r \in CallIds : CallEnds(r)) /\ UNCHANGED notConcurrentVars

ConcurrentSpec == ConcurrentSpecInit /\ [][ConcurrentSpecNext]_vars

\* The profile card alone.
CardSpecInit ==
    /\ CardInit /\ RouterInit /\ SubmitInitWith(DefaultProps) /\ ServiceParked
    /\ ConcurrentParked /\ LayoutInit /\ PageInit

CardSpecNext ==
    \/ RenderCard /\ UNCHANGED notCardVars
    \/ RenderCardAgain /\ UNCHANGED notCardVars

CardSpec == CardSpecInit /\ [][CardSpecNext]_vars

\* TeacherLayout alone.
LayoutSpecInit ==
    /\ LayoutInit /\ RouterInit /\ SubmitInitWith(DefaultProps) /\ ServiceParked
    /\ ConcurrentParked /\ CardParked /\ PageInit

LayoutSpecNext ==
    \/ LayoutRequest /\ UNCHANGED notLayoutVars
    \/ GetSessionThrows /\ UNCHANGED notLayoutVars
    \/ GetSessionReturns /\ UNCHANGED notLayoutVars
    \/ GetUserAnswers /\ UNCHANGED notLayoutVars
    \/ GetUserRejects /\ UNCHANGED notLayoutVars
    \/ GetProfileAnswers /\ UNCHANGED notLayoutVars
    \/ GetProfileThrows /\ UNCHANGED notLayoutVars
    \/ LayoutEnds /\ UNCHANGED notLayoutVars
    \/ CacheExpires /\ UNCHANGED notLayoutVars

LayoutSpec == LayoutSpecInit /\ [][LayoutSpecNext]_vars

\* ClassActivitiesPage alone.
PageSpecInit ==
    /\ PageInit /\ RouterInit /\ SubmitInitWith(DefaultProps) /\ ServiceParked
    /\ ConcurrentParked /\ CardParked /\ LayoutInit

PageSpecNext ==
    \/ SessionSettles /\ UNCHANGED notPageVars
    \/ ActivitiesFetched /\ UNCHANGED notPageVars
    \/ ActivitiesFetchFails /\ UNCHANGED notPageVars
    \/ StudentSubmits /\ UNCHANGED notPageVars
    \/ OnEditRefused /\ UNCHANGED notPageVars
    \/ OnEditNavigates /\ UNCHANGED notPageVars
    \/ OnView /\ UNCHANGED notPageVars
    \/ BackToList /\ UNCHANGED notPageVars

PageSpec == PageSpecInit /\ [][PageSpecNext]_vars

====
